---- MODULE Spec2Model ----
(***************************************************************************)
(* Shopkeeper product-substitution assistant: the knowledge graph built    *)
(* over the catalog (src/core/kg_builder.py) and the reasoning over it     *)
(* (src/core/reasoning.py): bounded BFS, scoring, ranking, status message. *)
(*                                                                         *)
(* Strings that the code builds and takes apart (node ids, product ids)    *)
(* are sequences of tokens; "product:", "category:", "brand:" and "attr:"  *)
(* are tokens of their own and every other token is free of ':' so that an *)
(* occurrence of the substring "product:" is exactly an occurrence of the  *)
(* token.  Names, categories, brands and tags are compared only for        *)
(* equality and are plain strings.                                         *)
(*                                                                         *)
(* Scores are Python floats that are sums of multiples of 0.1; the model   *)
(* keeps them as integers in tenths (4.0 is 40, 2.8 is 28, -0.2 is -2).    *)
(* Within one query the order and the equality of two float scores agree   *)
(* with those of the exact decimal sums, so ranking is not affected; the   *)
(* float itself can differ from the decimal sum in its last bit.           *)
(***************************************************************************)
EXTENDS Integers, Sequences, FiniteSets, TLC

VARIABLES products, KG, pc, bfsArgs, bfs, query, res, scoreArgs, scoreRes, viz

vars == <<products, KG, pc, bfsArgs, bfs, query, res, scoreArgs, scoreRes, viz>>

(* Optional[T]: None is the empty sequence, a value x is <<x>>. *)
None == <<>>

Some(x) == <<x>>

IsNone(o) == o = <<>>

Val(o) == o[1]

----------------------------------------------------------------------------
(* Bounds of the model *)

MaxProducts == 3
MaxPrice == 2
MaxDepth == 3
MaxAlternatives == 2
MaxTags == 3

----------------------------------------------------------------------------
(* Generic helpers on sequences *)

Range(s) == {s[i] : i \in DOMAIN s}

Contains(s, x) == \E i \in DOMAIN s : s[i] = x

Min2(a, b) == IF a < b THEN a ELSE b

Max2(a, b) == IF a > b THEN a ELSE b

----------------------------------------------------------------------------
(* kg_builder.py: static tables *)

CATEGORIES == <<"Dairy", "Bakery", "Snacks", "Beverages", "Health">>

SIMILAR_CATEGORIES ==
    [c \in Range(CATEGORIES) |->
        CASE c = "Dairy"     -> <<"Health", "Snacks">>
          [] c = "Bakery"    -> <<"Snacks", "Health">>
          [] c = "Snacks"    -> <<"Bakery", "Health">>
          [] c = "Beverages" -> <<"Health">>
          [] c = "Health"    -> <<"Dairy", "Snacks", "Bakery", "Beverages">>]

SIMILAR_PAIRS ==
    << << <<"P001">>, <<"P003">> >>, << <<"P002">>, <<"P026">> >>,
       << <<"P009">>, <<"P011">> >>, << <<"P012">>, <<"P028">> >>,
       << <<"P015">>, <<"P016">> >>, << <<"P018">>, <<"P019">> >>,
       << <<"P021">>, <<"P022">> >>, << <<"P023">>, <<"P024">> >>,
       << <<"P027">>, <<"P028">> >>, << <<"P029">>, <<"P026">> >> >>

----------------------------------------------------------------------------
(* The graph: networkx.Graph as build_kg uses it.  nodes is the node       *)
(* insertion order, ntype the node_type attribute ("" when the node was    *)
(* created by add_edge without attributes), adj[n] the neighbours of n in  *)
(* insertion order (the order KG.neighbors(n) yields), etype the edge_type *)
(* attribute of the undirected edge {u, v}.                                *)

EmptyGraph == [nodes |-> <<>>, ntype |-> <<>>, adj |-> <<>>, etype |-> <<>>]

NodeSet(G) == Range(G.nodes)

EdgeSet(G) == DOMAIN G.etype

AddNode(G, n, t) ==
    IF n \in NodeSet(G)
    THEN [G EXCEPT !.ntype = [x \in DOMAIN G.ntype |-> IF x = n THEN t ELSE G.ntype[x]]]
    ELSE [G EXCEPT !.nodes = Append(G.nodes, n),
                   !.ntype = (n :> t) @@ G.ntype,
                   !.adj   = (n :> <<>>) @@ G.adj]

TouchNode(G, n) == IF n \in NodeSet(G) THEN G ELSE AddNode(G, n, "")

AddEdge(G, u, v, t) ==
    LET G1 == TouchNode(TouchNode(G, u), v)
        au == IF Contains(G1.adj[u], v) THEN G1.adj[u] ELSE Append(G1.adj[u], v)
        A1 == [x \in DOMAIN G1.adj |-> IF x = u THEN au ELSE G1.adj[x]]
        av == IF Contains(A1[v], u) THEN A1[v] ELSE Append(A1[v], u)
        A2 == [x \in DOMAIN A1 |-> IF x = v THEN av ELSE A1[x]]
    IN  [G1 EXCEPT !.adj = A2, !.etype = ({u, v} :> t) @@ G1.etype]

Neighbors(G, n) == G.adj[n]

----------------------------------------------------------------------------
(* Node identifiers *)

product_to_node_id(product_id) == <<"product:">> \o product_id

CategoryNode(cat) == <<"category:", cat>>

BrandNode(brand) == <<"brand:", brand>>

AttrNode(tag) == <<"attr:", tag>>

StartsWithProduct(node_id) == Len(node_id) >= 1 /\ node_id[1] = "product:"

----------------------------------------------------------------------------
(* kg_builder.py: build_kg *)

(* sorted(): Python's order on the strings of the model, smallest first. *)
StringOrder == <<"b1", "b2", "t1", "t2">>

sorted(S) == SelectSeq(StringOrder, LAMBDA x : x \in S)

(* TLC evaluates operator arguments lazily; Evaluated(G) makes it build G  *)
(* before the next step of a loop instead of nesting all steps.            *)
Evaluated(G) == G.nodes = G.nodes

RECURSIVE AddNodes_Mut(_, _, _)
AddNodes_Mut(G, ns, t) ==
    IF Len(ns) <= 1 THEN G
    ELSE LET G1 == AddNode(G, Head(ns), t)
         IN  IF Evaluated(G1) THEN AddNodes_Mut(G1, Tail(ns), t) ELSE G1

RECURSIVE AddNodes(_, _, _)
AddNodes(G, ns, t) ==
    IF ns = <<>> THEN G
    ELSE LET G1 == AddNode(G, Head(ns), t)
         IN  IF Evaluated(G1) THEN AddNodes(G1, Tail(ns), t) ELSE G1

RECURSIVE AddAttributeEdges(_, _, _)
AddAttributeEdges(G, pid, tags) ==
    IF tags = <<>> THEN G
    ELSE LET G1 == AddEdge(G, pid, AttrNode(Head(tags)), "HAS_ATTRIBUTE")
         IN  IF Evaluated(G1) THEN AddAttributeEdges(G1, pid, Tail(tags)) ELSE G1

AddProduct_Mut(G, p) ==
    LET pid == product_to_node_id(p.product_id)
        G1  == AddNode(G, pid, "product")
        G2  == AddEdge(G1, pid, CategoryNode(p.category), "IS_A")
        G3  == AddEdge(G2, pid, BrandNode(p.brand), "IS_A")
    IN  AddAttributeEdges(G3, pid, p.tags)

AddProduct(G, p) ==
    LET pid == product_to_node_id(p.product_id)
        G1  == AddNode(G, pid, "product")
        G2  == AddEdge(G1, pid, CategoryNode(p.category), "IS_A")
        G3  == AddEdge(G2, pid, BrandNode(p.brand), "HAS_BRAND")
    IN  AddAttributeEdges(G3, pid, p.tags)

RECURSIVE AddProducts(_, _)
AddProducts(G, ps) ==
    IF ps = <<>> THEN G
    ELSE LET G1 == AddProduct(G, Head(ps))
         IN  IF Evaluated(G1) THEN AddProducts(G1, Tail(ps)) ELSE G1

RECURSIVE AddSimilarEdges_Mut(_, _, _)
AddSimilarEdges_Mut(G, pairs, product_ids) ==
    IF pairs = <<>> THEN G
    ELSE LET a == Head(pairs)[1]
             b == Head(pairs)[2]
             G1 == IF a \in product_ids \/ b \in product_ids
                   THEN AddEdge(G, product_to_node_id(a), product_to_node_id(b), "SIMILAR_TO")
                   ELSE G
         IN  IF Evaluated(G1) THEN AddSimilarEdges_Mut(G1, Tail(pairs), product_ids) ELSE G1

RECURSIVE AddSimilarEdges(_, _, _)
AddSimilarEdges(G, pairs, product_ids) ==
    IF pairs = <<>> THEN G
    ELSE LET a == Head(pairs)[1]
             b == Head(pairs)[2]
             G1 == IF a \in product_ids /\ b \in product_ids
                   THEN AddEdge(G, product_to_node_id(a), product_to_node_id(b), "SIMILAR_TO")
                   ELSE G
         IN  IF Evaluated(G1) THEN AddSimilarEdges(G1, Tail(pairs), product_ids) ELSE G1

build_kg(ps) ==
    LET brands     == sorted({ps[i].brand : i \in DOMAIN ps})
        attributes == sorted(UNION {Range(ps[i].tags) : i \in DOMAIN ps})
        G1 == AddNodes(EmptyGraph, [i \in DOMAIN CATEGORIES |-> CategoryNode(CATEGORIES[i])], "category")
        G2 == AddNodes(G1, [i \in DOMAIN brands |-> BrandNode(brands[i])], "brand")
        G3 == AddNodes(G2, [i \in DOMAIN attributes |-> AttrNode(attributes[i])], "attribute")
        G4 == AddProducts(G3, ps)
    IN  AddSimilarEdges(G4, SIMILAR_PAIRS, {ps[i].product_id : i \in DOMAIN ps})

----------------------------------------------------------------------------
(* reasoning.py: node ids back to products *)

(* {p.product_id: p for p in products}: a later product replaces an earlier *)
(* one with the same id.                                                    *)
id_to_product(ps) ==
    [pid \in {ps[i].product_id : i \in DOMAIN ps} |->
        ps[CHOOSE i \in DOMAIN ps : ps[i].product_id = pid
                                     /\ \A j \in DOMAIN ps : ps[j].product_id = pid => j <= i]]

(* node_id.split("product:")[-1]: what follows the last "product:". *)
SplitLast(node_id) ==
    LET occ == {i \in DOMAIN node_id : node_id[i] = "product:"}
    IN  IF occ = {} THEN node_id
        ELSE LET last == CHOOSE i \in occ : \A j \in occ : j <= i
             IN  SubSeq(node_id, last + 1, Len(node_id))

node_id_to_product(node_id, idp) ==
    IF ~StartsWithProduct(node_id) THEN None
    ELSE LET pid == SplitLast(node_id)
         IN  IF pid \in DOMAIN idp THEN Some(idp[pid]) ELSE None

----------------------------------------------------------------------------
(* reasoning.py: bfs_candidates_with_depth.  candidates is the dict in its  *)
(* insertion order, one entry [key, product, depth] per key.                *)

DictGet(cands, key) ==
    IF \E i \in DOMAIN cands : cands[i].key = key
    THEN Some(cands[CHOOSE i \in DOMAIN cands : cands[i].key = key])
    ELSE None

DictSet(cands, entry) ==
    IF \E i \in DOMAIN cands : cands[i].key = entry.key
    THEN [i \in DOMAIN cands |-> IF cands[i].key = entry.key THEN entry ELSE cands[i]]
    ELSE Append(cands, entry)

BfsStart(requested) ==
    LET start == product_to_node_id(requested.product_id)
    IN  [visited |-> {start}, queue |-> << <<start, 0>> >>, traversed |-> 0, candidates |-> <<>>]

BfsNeighbor_Mut(st, nb, depth, start, idp) ==
    IF nb = start THEN st
    ELSE LET st1 == [st EXCEPT !.queue = Append(@, <<nb, depth + 1>>)]
         IN  IF StartsWithProduct(nb) /\ nb # start
             THEN LET p == node_id_to_product(nb, idp)
                  IN  IF IsNone(p) THEN st1
                      ELSE LET prev == DictGet(st1.candidates, Val(p).product_id)
                           IN  IF IsNone(prev) \/ depth + 1 < Val(prev).depth
                               THEN [st1 EXCEPT !.candidates =
                                        DictSet(@, [key |-> Val(p).product_id,
                                                    product |-> Val(p),
                                                    depth |-> depth + 1])]
                               ELSE st1
             ELSE st1

(* The body of "for nb in KG.neighbors(node)" for one neighbour. *)
BfsNeighbor(st, nb, depth, start, idp) ==
    IF nb \in st.visited THEN st
    ELSE LET st1 == [st EXCEPT !.visited = @ \cup {nb},
                               !.queue   = Append(@, <<nb, depth + 1>>)]
         IN  IF StartsWithProduct(nb) /\ nb # start
             THEN LET p == node_id_to_product(nb, idp)
                  IN  IF IsNone(p) THEN st1
                      ELSE LET prev == DictGet(st1.candidates, Val(p).product_id)
                           IN  IF IsNone(prev) \/ depth + 1 < Val(prev).depth
                               THEN [st1 EXCEPT !.candidates =
                                        DictSet(@, [key |-> Val(p).product_id,
                                                    product |-> Val(p),
                                                    depth |-> depth + 1])]
                               ELSE st1
             ELSE st1

RECURSIVE BfsNeighbors(_, _, _, _, _)
BfsNeighbors(st, nbs, depth, start, idp) ==
    IF nbs = <<>> THEN st
    ELSE BfsNeighbors(BfsNeighbor(st, Head(nbs), depth, start, idp), Tail(nbs), depth, start, idp)

BfsIter_Mut(G, st, requested, idp, max_depth) ==
    LET node  == Head(st.queue)[1]
        depth == Head(st.queue)[2]
        st1   == [st EXCEPT !.queue = Tail(@), !.traversed = @ + 1]
    IN  IF depth > max_depth THEN st1
        ELSE BfsNeighbors(st1, Neighbors(G, node), depth,
                          product_to_node_id(requested.product_id), idp)

(* One iteration of "while queue". *)
BfsIter(G, st, requested, idp, max_depth) ==
    LET node  == Head(st.queue)[1]
        depth == Head(st.queue)[2]
        st1   == [st EXCEPT !.queue = Tail(@), !.traversed = @ + 1]
    IN  IF depth >= max_depth THEN st1
        ELSE BfsNeighbors(st1, Neighbors(G, node), depth,
                          product_to_node_id(requested.product_id), idp)

RECURSIVE BfsLoop(_, _, _, _, _)
BfsLoop(G, st, requested, idp, max_depth) ==
    IF st.queue = <<>> THEN st
    ELSE BfsLoop(G, BfsIter(G, st, requested, idp, max_depth), requested, idp, max_depth)

(* The whole call: <<candidates, traversed>>. *)
bfs_candidates_with_depth(G, requested, idp, max_depth) ==
    LET st == BfsLoop(G, BfsStart(requested), requested, idp, max_depth)
    IN  <<st.candidates, st.traversed>>

----------------------------------------------------------------------------
(* reasoning.py: category_closeness, in tenths (1.0 is 10, 0.7 is 7). *)

category_closeness_Mut(source_cat, target_cat) ==
    IF source_cat = target_cat THEN 10
    ELSE IF target_cat \in DOMAIN SIMILAR_CATEGORIES
            /\ Contains(SIMILAR_CATEGORIES[target_cat], source_cat) THEN 7
    ELSE 0

category_closeness(source_cat, target_cat) ==
    IF source_cat = target_cat THEN 10
    ELSE IF source_cat \in DOMAIN SIMILAR_CATEGORIES
            /\ Contains(SIMILAR_CATEGORIES[source_cat], target_cat) THEN 7
    ELSE 0

----------------------------------------------------------------------------
(* reasoning.py: build_explanation.  A string is the sequence of its       *)
(* pieces: sentences, tags and the separators " ", ", " and ".".           *)

RULE_EXPLANATIONS ==
    [t \in {"exact_match_available", "preferred_brand_respected", "same_brand_as_requested",
            "different_brand_than_requested", "all_required_tags_matched", "cheaper_option",
            "same_price_as_requested", "slightly_more_expensive", "same_category",
            "similar_category", "closer_in_graph"} |->
        CASE t = "exact_match_available"          -> "The exact item is in stock and matches your filters."
          [] t = "preferred_brand_respected"      -> "Matches your preferred brand."
          [] t = "same_brand_as_requested"        -> "Same brand as the requested product."
          [] t = "different_brand_than_requested" -> "Different brand than the requested product."
          [] t = "all_required_tags_matched"      -> "Matches all required tags."
          [] t = "cheaper_option"                 -> "Cheaper than the requested product."
          [] t = "same_price_as_requested"        -> "Same price as the requested product."
          [] t = "slightly_more_expensive"        -> "Slightly more expensive."
          [] t = "same_category"                  -> "Same category."
          [] t = "similar_category"               -> "Related category."
          [] t = "closer_in_graph"                -> "Close to the requested item in the knowledge graph."]

RECURSIVE Join_Mut(_, _)
Join_Mut(parts, sep) ==
    IF parts = <<>> THEN <<>>
    ELSE IF Len(parts) = 1 THEN parts[1]
    ELSE parts[1] \o Join_Mut(Tail(parts), sep)

(* sep.join(parts), each part a string (a sequence of pieces). *)
RECURSIVE Join(_, _)
Join(parts, sep) ==
    IF parts = <<>> THEN <<>>
    ELSE IF Len(parts) = 1 THEN parts[1]
    ELSE parts[1] \o <<sep>> \o Join(Tail(parts), sep)

(* str.strip() on a sequence of pieces: the pieces that are only white     *)
(* space are dropped from both ends (no other piece begins or ends the     *)
(* joined string with white space).                                        *)
RECURSIVE strip(_)
strip(s) ==
    IF s = <<>> THEN s
    ELSE IF Head(s) = " " THEN strip(Tail(s))
    ELSE IF s[Len(s)] = " " THEN strip(SubSeq(s, 1, Len(s) - 1))
    ELSE s

build_explanation(rule_tags, required_tags) ==
    LET known == SelectSeq(rule_tags, LAMBDA t : t \in DOMAIN RULE_EXPLANATIONS)
        parts == [i \in DOMAIN known |-> <<RULE_EXPLANATIONS[known[i]]>>]
        req   == <<"Required tags: ">>
                 \o Join([i \in DOMAIN required_tags |-> <<required_tags[i]>>], ", ")
                 \o <<".">>
        all   == IF required_tags # <<>> /\ Contains(rule_tags, "all_required_tags_matched")
                 THEN Append(parts, req) ELSE parts
    IN  strip(Join(all, " "))

----------------------------------------------------------------------------
(* reasoning.py: check_exact_product_availability: <<product or None, tags>> *)

check_exact_product_availability_Mut(product, max_price, required_tags, preferred_brand) ==
    IF ~IsNone(max_price) /\ product.price > Val(max_price) THEN <<None, <<>> >>
    ELSE IF ~product.in_stock THEN <<None, <<>> >>
    ELSE IF ~(Range(required_tags) \subseteq Range(product.tags)) THEN <<None, <<>> >>
    ELSE <<Some(product),
           <<"exact_match_available">>
           \o (IF ~IsNone(preferred_brand) THEN <<"preferred_brand_respected">> ELSE <<>>)
           \o (IF required_tags # <<>> THEN <<"all_required_tags_matched">> ELSE <<>>)>>

check_exact_product_availability(product, max_price, required_tags, preferred_brand) ==
    IF ~IsNone(preferred_brand) /\ product.brand # Val(preferred_brand) THEN <<None, <<>> >>
    ELSE IF ~IsNone(max_price) /\ product.price > Val(max_price) THEN <<None, <<>> >>
    ELSE IF ~product.in_stock THEN <<None, <<>> >>
    ELSE IF ~(Range(required_tags) \subseteq Range(product.tags)) THEN <<None, <<>> >>
    ELSE <<Some(product),
           <<"exact_match_available">>
           \o (IF ~IsNone(preferred_brand) THEN <<"preferred_brand_respected">> ELSE <<>>)
           \o (IF required_tags # <<>> THEN <<"all_required_tags_matched">> ELSE <<>>)>>

----------------------------------------------------------------------------
(* reasoning.py: score_candidate: <<score or None, rule_tags>>, the score  *)
(* in tenths.                                                              *)

HardFilterRejects_Mut(candidate, max_price, required_tags) ==
    \/ ~candidate.in_stock
    \/ ~IsNone(max_price) /\ candidate.price >= Val(max_price)
    \/ ~(Range(required_tags) \subseteq Range(candidate.tags))

(* The three early returns. *)
HardFilterRejects(candidate, max_price, required_tags) ==
    \/ ~candidate.in_stock
    \/ ~IsNone(max_price) /\ candidate.price > Val(max_price)
    \/ ~(Range(required_tags) \subseteq Range(candidate.tags))

ProximityBonus_Mut(depth) == (3 - depth) * 5

(* max(0, (3 - depth)) * 0.5 *)
ProximityBonus(depth) == Max2(0, 3 - depth) * 5

score_candidate_Mut(requested, candidate, depth, max_price, required_tags, preferred_brand) ==
    IF HardFilterRejects(candidate, max_price, required_tags) THEN <<None, <<>> >>
    ELSE
    LET cat_score == category_closeness(requested.category, candidate.category)
        s1 == 0 + cat_score * 4
        t1 == IF cat_score = 10 THEN <<"same_category">>
              ELSE IF cat_score > 0 THEN <<"similar_category">>
              ELSE <<>>
        s2 == IF ~IsNone(preferred_brand)
              THEN (IF candidate.brand = Val(preferred_brand) THEN s1 + 30 ELSE s1 - 5)
              ELSE (IF candidate.brand = requested.brand THEN s1 + 20 ELSE s1)
        t2 == IF ~IsNone(preferred_brand)
              THEN (IF candidate.brand = Val(preferred_brand)
                    THEN Append(t1, "preferred_brand_respected")
                    ELSE Append(t1, "different_brand_than_requested"))
              ELSE (IF candidate.brand = requested.brand
                    THEN Append(t1, "same_brand_as_requested")
                    ELSE Append(t1, "different_brand_than_requested"))
        s3 == IF candidate.price < requested.price THEN s2 + 10
              ELSE IF candidate.price = requested.price THEN s2 + 5
              ELSE s2 - 2
        t3 == IF candidate.price < requested.price THEN Append(t2, "cheaper_option")
              ELSE IF candidate.price = requested.price THEN Append(t2, "same_price_as_requested")
              ELSE Append(t2, "slightly_more_expensive")
        s4 == s3 + ProximityBonus(depth)
        t4 == IF depth < 3 THEN Append(t3, "closer_in_graph") ELSE t3
        t5 == IF required_tags # <<>> THEN Append(t4, "all_required_tags_matched") ELSE t4
    IN  <<Some(s4), t5>>

score_candidate(requested, candidate, depth, max_price, required_tags, preferred_brand) ==
    IF HardFilterRejects(candidate, max_price, required_tags) THEN <<None, <<>> >>
    ELSE
    LET cat_score == category_closeness(requested.category, candidate.category)
        s1 == 0 + cat_score * 4
        t1 == IF cat_score = 10 THEN <<"same_category">>
              ELSE IF cat_score > 0 THEN <<"similar_category">>
              ELSE <<>>
        s2 == IF ~IsNone(preferred_brand)
              THEN (IF candidate.brand = Val(preferred_brand) THEN s1 + 30 ELSE s1 - 5)
              ELSE (IF candidate.brand = requested.brand THEN s1 + 20 ELSE s1)
        t2 == IF ~IsNone(preferred_brand)
              THEN (IF candidate.brand = Val(preferred_brand)
                    THEN Append(t1, "preferred_brand_respected")
                    ELSE Append(t1, "different_brand_than_requested"))
              ELSE (IF candidate.brand = requested.brand
                    THEN Append(t1, "same_brand_as_requested")
                    ELSE Append(t1, "different_brand_than_requested"))
        s3 == IF candidate.price < requested.price THEN s2 + 10
              ELSE IF candidate.price = requested.price THEN s2 + 5
              ELSE s2 - 2
        t3 == IF candidate.price < requested.price THEN Append(t2, "cheaper_option")
              ELSE IF candidate.price = requested.price THEN Append(t2, "same_price_as_requested")
              ELSE Append(t2, "slightly_more_expensive")
        s4 == s3 + ProximityBonus(depth)
        t4 == Append(t3, "closer_in_graph")
        t5 == IF required_tags # <<>> THEN Append(t4, "all_required_tags_matched") ELSE t4
    IN  <<Some(s4), t5>>

----------------------------------------------------------------------------
(* reasoning.py: find_alternatives *)

name_to_product_id_Mut(ps, name) ==
    IF \E i \in DOMAIN ps : ps[i].name = name
    THEN Some(ps[CHOOSE i \in DOMAIN ps : ps[i].name = name].product_id)
    ELSE IF ps # <<>> THEN Some(ps[1].product_id) ELSE None

(* {p.name: p.product_id for p in products}.get(name) *)
name_to_product_id(ps, name) ==
    IF \E i \in DOMAIN ps : ps[i].name = name
    THEN Some(ps[CHOOSE i \in DOMAIN ps : ps[i].name = name
                                   /\ \A j \in DOMAIN ps : ps[j].name = name => j <= i].product_id)
    ELSE None

(* The loop over candidates_with_depth.items(): the Recommendations of the *)
(* candidates that are not rejected, in the dict's order.                  *)
RECURSIVE ScoreAll(_, _, _, _, _)
ScoreAll(cands, requested, max_price, required_tags, preferred_brand) ==
    IF cands = <<>> THEN <<>>
    ELSE LET c    == Head(cands)
             st   == score_candidate(requested, c.product, c.depth, max_price,
                                     required_tags, preferred_brand)
             rest == ScoreAll(Tail(cands), requested, max_price, required_tags, preferred_brand)
         IN  IF IsNone(st[1]) THEN rest
             ELSE <<[product |-> c.product, score |-> Val(st[1]), rule_tags |-> st[2],
                     explanation |-> build_explanation(st[2], required_tags)]>> \o rest

InsertByScore_Mut(sortedRecs, r) ==
    LET k == Cardinality({i \in DOMAIN sortedRecs : sortedRecs[i].score > r.score})
    IN  SubSeq(sortedRecs, 1, k) \o <<r>> \o SubSeq(sortedRecs, k + 1, Len(sortedRecs))

(* list.sort(key=lambda r: r.score, reverse=True): stable, so an element   *)
(* goes behind every element whose score is at least its own.              *)
InsertByScore(sortedRecs, r) ==
    LET k == Cardinality({i \in DOMAIN sortedRecs : sortedRecs[i].score >= r.score})
    IN  SubSeq(sortedRecs, 1, k) \o <<r>> \o SubSeq(sortedRecs, k + 1, Len(sortedRecs))

RECURSIVE SortByScoreDesc(_)
SortByScoreDesc(recs) ==
    IF recs = <<>> THEN <<>>
    ELSE InsertByScore(SortByScoreDesc(SubSeq(recs, 1, Len(recs) - 1)), recs[Len(recs)])

(* scored[:max_alternatives] *)
SliceTo(s, n) ==
    IF n >= 0 THEN SubSeq(s, 1, Min2(n, Len(s)))
    ELSE SubSeq(s, 1, Max2(0, Len(s) + n))

StatusMessage_Mut(top, exact) ==
    IF top = <<>>
    THEN (IF ~IsNone(exact)
          THEN "No alternatives found matching constraints."
          ELSE "Exact product is available, but no better alternatives were found.")
    ELSE (IF ~IsNone(exact)
          THEN "Exact product is available. Showing additional alternatives."
          ELSE "Alternatives found.")

StatusMessage(top, exact) ==
    IF top = <<>>
    THEN (IF ~IsNone(exact)
          THEN "Exact product is available, but no better alternatives were found."
          ELSE "No alternatives found matching constraints.")
    ELSE (IF ~IsNone(exact)
          THEN "Exact product is available. Showing additional alternatives."
          ELSE "Alternatives found.")

find_alternatives(G, ps, requested_product_name, max_price, required_tags, preferred_brand, max_alternatives) ==
    LET idp == id_to_product(ps)
        pid == name_to_product_id(ps, requested_product_name)
    IN  IF IsNone(pid)
        THEN [requested |-> None, exact_match |-> None, alternatives |-> <<>>,
              message |-> "Product not found.", traversed_nodes |-> 0]
        ELSE
        LET requested == idp[Val(pid)]
            ex     == check_exact_product_availability(requested, max_price,
                                                       required_tags, preferred_brand)
            found  == bfs_candidates_with_depth(G, requested, idp, 2)
            scored == SortByScoreDesc(ScoreAll(found[1], requested, max_price,
                                               required_tags, preferred_brand))
            top    == SliceTo(scored, max_alternatives)
        IN  [requested |-> Some(requested),
             exact_match |-> IF IsNone(ex[1]) THEN None
                             ELSE Some([product |-> Val(ex[1]), rule_tags |-> ex[2],
                                        explanation |-> build_explanation(ex[2], required_tags)]),
             alternatives |-> top,
             message |-> StatusMessage(top, ex[1]),
             traversed_nodes |-> found[2]]

----------------------------------------------------------------------------
(* visualize.py: visualize_search_path, up to the subgraph it draws.       *)

(* Number of edges of a fewest-edges path from the nodes of seen (those    *)
(* within n edges of the source) to target, -1 when target is unreachable. *)
RECURSIVE HopsFrom(_, _, _, _)
HopsFrom(G, seen, target, n) ==
    IF target \in seen THEN n
    ELSE LET next == seen \cup UNION {Range(G.adj[x]) : x \in seen}
         IN  IF next = seen THEN -1 ELSE HopsFrom(G, next, target, n + 1)

(* The walks of n edges from source to target. *)
RECURSIVE Walks(_, _, _, _)
Walks(G, source, target, n) ==
    IF n = 0 THEN (IF source = target THEN {<<source>>} ELSE {})
    ELSE UNION {{Append(w, target) : w \in Walks(G, source, m, n - 1)} : m \in Range(G.adj[target])}

(* nx.shortest_path(G, source, target) without weights: NodeNotFound when   *)
(* an endpoint is not a node of G, NetworkXNoPath when target cannot be     *)
(* reached, otherwise a path with the fewest edges.  Which of several such  *)
(* paths the library returns is not fixed here: paths holds all of them.    *)
shortest_path(G, source, target) ==
    IF source \notin NodeSet(G) \/ target \notin NodeSet(G)
    THEN [error |-> "NodeNotFound", paths |-> {}]
    ELSE LET n == HopsFrom(G, {source}, target, 0)
         IN  IF n < 0 THEN [error |-> "NetworkXNoPath", paths |-> {}]
             ELSE [error |-> "", paths |-> Walks(G, source, target, n)]

target_ids_Mut(recs) == [i \in DOMAIN recs |-> <<"product:", recs[i].product.name>>]

target_ids(recs) == [i \in DOMAIN recs |-> product_to_node_id(recs[i].product.product_id)]

PathEdges_Mut(path) == {<<path[i], path[i + 1]>> : i \in 1..(Len(path) - 2)}

(* The pairs (a, b) of consecutive nodes of a path. *)
PathEdges(path) == {<<path[i], path[i + 1]>> : i \in 1..(Len(path) - 1)}

(* "for tid in target_ids": every way the loop can end, as the exception    *)
(* that leaves it ("" for none) and the set edges collected so far.         *)
RECURSIVE CollectEdges(_, _, _, _)
CollectEdges(G, root_id, tids, edges) ==
    IF tids = <<>> THEN {[error |-> "", edges |-> edges]}
    ELSE LET r == shortest_path(G, root_id, Head(tids))
         IN  CASE r.error = "NetworkXNoPath" -> CollectEdges(G, root_id, Tail(tids), edges)
               [] r.error = "NodeNotFound"   -> {[error |-> "NodeNotFound", edges |-> edges]}
               [] OTHER -> UNION {CollectEdges(G, root_id, Tail(tids), edges \cup PathEdges(w))
                                  : w \in r.paths}

(* KG.edge_subgraph(list(edges)).copy(): the edges of G among the pairs and *)
(* their end nodes, as a graph of its own.                                  *)
edge_subgraph(G, edges) ==
    LET es == {e \in EdgeSet(G) : \E ab \in edges : e = {ab[1], ab[2]}}
    IN  [nodes |-> UNION es, edges |-> es]

(* The outcomes of visualize_search_path(KG, root_product, recs): the       *)
(* exception raised ("" for none) and the figure returned (None, or the     *)
(* subgraph that is drawn).  root_product is what find_alternatives gave as *)
(* "requested", so it may be None.                                          *)
visualize_search_path(G, root_product, recs) ==
    IF recs = <<>> THEN {[error |-> "", figure |-> None]}
    ELSE IF IsNone(root_product) THEN {[error |-> "AttributeError", figure |-> None]}
    ELSE LET root_id == product_to_node_id(Val(root_product).product_id)
             ends    == CollectEdges(G, root_id, target_ids(recs), {})
         IN  {IF e.error # "" THEN [error |-> e.error, figure |-> None]
              ELSE IF e.edges = {} THEN [error |-> "", figure |-> None]
              ELSE [error |-> "", figure |-> Some(edge_subgraph(G, e.edges))] : e \in ends}

----------------------------------------------------------------------------
(* Catalogs of the model.  Product ids are drawn in order from IdPool, the  *)
(* product at position i is named ProductNames[i], so ids and names are     *)
(* unique as the data model requires.                                       *)

IdPool == << <<"P001">>, <<"P003">>, <<"P002">>, <<"X", "product:", "P001">> >>

ProductNames == <<"Milk", "Curd", "Bread", "Chips">>

IdChoices(n) ==
    {ix \in [1..n -> 1..Len(IdPool)] : \A i \in 1..(n - 1) : ix[i] < ix[i + 1]}

(* Every catalog of at most MaxProducts products whose category, brand,   *)
(* price, stock flag and tags are those of a record of V.                  *)
Catalogs(V) ==
    UNION {
      { [i \in 1..n |-> [product_id |-> IdPool[ix[i]], name |-> ProductNames[i],
                         category |-> f[i].category, brand |-> f[i].brand,
                         price |-> f[i].price, in_stock |-> f[i].in_stock,
                         tags |-> f[i].tags]]
        : ix \in IdChoices(n), f \in [1..n -> V] }
      : n \in 1..Min2(MaxProducts, Len(IdPool)) }

(* Catalogs for the graph and its traversal: every shape of hub sharing.   *)
GraphVariants ==
    [category : {"Dairy", "Snacks"}, brand : {"b1", "b2"}, price : {1},
     in_stock : {TRUE}, tags : {<<>>, <<"t1">>}]

(* Catalogs for the queries: two kinds of product that share no category, *)
(* brand or tag, each at two prices, in and out of stock.                  *)
ShopVariants ==
    UNION { [category : {k[1]}, brand : {k[2]}, price : {1, 2},
             in_stock : BOOLEAN, tags : {k[3]}]
            : k \in { <<"Dairy", "b1", <<"t1">> >>, <<"Snacks", "b2", <<>> >> } }

(* Catalogs for build_kg: Product.category is any string, so a category    *)
(* outside CATEGORIES ("Frozen") is among them; tags in either order.      *)
KGVariants ==
    [category : {"Dairy", "Frozen"}, brand : {"b1", "b2"}, price : {1},
     in_stock : {TRUE}, tags : {<<>>, <<"t1">>, <<"t2", "t1">>}]

(* Catalogs for the visualization: products that share a category, a      *)
(* brand, a tag, several of them or nothing at all.                        *)
VizVariants ==
    { [category |-> k[1], brand |-> k[2], price |-> 1, in_stock |-> TRUE, tags |-> k[3]]
      : k \in { <<"Dairy", "b1", <<"t1">> >>, <<"Dairy", "b2", <<>> >>,
                <<"Snacks", "b2", <<>> >> } }

NoBfs == [visited |-> {}, queue |-> <<>>, traversed |-> 0, candidates |-> <<>>]

NoArgs == [call |-> "none"]

----------------------------------------------------------------------------
(* AppService.__init__: the graph is built once from the loaded catalog.   *)

BuildKG ==
    /\ pc = "loaded"
    /\ KG' = build_kg(products)
    /\ pc' = "ready"
    /\ UNCHANGED <<products, bfsArgs, bfs, query, res, scoreArgs, scoreRes, viz>>

(* build_kg on its own, over the catalogs of KGVariants. *)
InitKG ==
    /\ products \in Catalogs(KGVariants)
    /\ KG = EmptyGraph
    /\ pc = "loaded"
    /\ bfsArgs = NoArgs
    /\ bfs = NoBfs
    /\ query = NoArgs
    /\ res = NoArgs
    /\ scoreArgs = NoArgs
    /\ scoreRes = NoArgs
    /\ viz = NoArgs

NextKG == BuildKG

SpecKG == InitKG /\ [][NextKG]_vars

----------------------------------------------------------------------------
(* bfs_candidates_with_depth, one loop iteration per step. *)

BfsCall ==
    /\ pc \in {"ready", "returned"}
    /\ \E i \in DOMAIN products, d \in 0..MaxDepth :
          /\ bfsArgs' = [call |-> "bfs", requested |-> products[i], max_depth |-> d]
          /\ bfs' = BfsStart(products[i])
    /\ pc' = "bfs"
    /\ UNCHANGED <<products, KG, query, res, scoreArgs, scoreRes, viz>>

BfsStep_Mut ==
    /\ pc = "bfs"
    /\ bfs.queue # <<>>
    /\ bfs' = IF Head(bfs.queue)[2] >= bfsArgs.max_depth THEN bfs
              ELSE BfsIter(KG, bfs, bfsArgs.requested, id_to_product(products), bfsArgs.max_depth)
    /\ UNCHANGED <<products, KG, pc, bfsArgs, query, res, scoreArgs, scoreRes, viz>>

BfsStep ==
    /\ pc = "bfs"
    /\ bfs.queue # <<>>
    /\ bfs' = BfsIter(KG, bfs, bfsArgs.requested, id_to_product(products), bfsArgs.max_depth)
    /\ UNCHANGED <<products, KG, pc, bfsArgs, query, res, scoreArgs, scoreRes, viz>>

BfsReturn ==
    /\ pc = "bfs"
    /\ bfs.queue = <<>>
    /\ pc' = "returned"
    /\ UNCHANGED <<products, KG, bfsArgs, bfs, query, res, scoreArgs, scoreRes, viz>>

InitBfs ==
    /\ products \in Catalogs(GraphVariants)
    /\ KG = EmptyGraph
    /\ pc = "loaded"
    /\ bfsArgs = NoArgs
    /\ bfs = NoBfs
    /\ query = NoArgs
    /\ res = NoArgs
    /\ scoreArgs = NoArgs
    /\ scoreRes = NoArgs
    /\ viz = NoArgs

NextBfs == BuildKG \/ BfsCall \/ BfsStep \/ BfsReturn

SpecBfs == InitBfs /\ [][NextBfs]_vars

----------------------------------------------------------------------------
(* AppService.get_results -> find_alternatives: one query against the      *)
(* graph built at start-up.                                                *)

QueryNames == {products[i].name : i \in DOMAIN products} \cup {"Ghee"}

FindAlternatives ==
    /\ pc = "ready"
    /\ \E name \in QueryNames,
          max_price \in {None, Some(1)},
          required_tags \in {<<>>, <<"t1">>},
          preferred_brand \in {None, Some("b1")},
          max_alternatives \in 0..MaxAlternatives :
          /\ query' = [call |-> "find_alternatives", name |-> name, max_price |-> max_price,
                       required_tags |-> required_tags, preferred_brand |-> preferred_brand,
                       max_alternatives |-> max_alternatives]
          /\ res' = find_alternatives(KG, products, name, max_price, required_tags,
                                      preferred_brand, max_alternatives)
    /\ pc' = "answered"
    /\ UNCHANGED <<products, KG, bfsArgs, bfs, scoreArgs, scoreRes, viz>>

(* The page has been rendered: the result is dropped, the service stays.   *)
Rerun ==
    /\ pc \in {"answered", "drawn"}
    /\ pc' = "ready"
    /\ query' = NoArgs
    /\ res' = NoArgs
    /\ viz' = NoArgs
    /\ UNCHANGED <<products, KG, bfsArgs, bfs, scoreArgs, scoreRes>>

Init ==
    /\ products \in Catalogs(ShopVariants)
    /\ KG = EmptyGraph
    /\ pc = "loaded"
    /\ bfsArgs = NoArgs
    /\ bfs = NoBfs
    /\ query = NoArgs
    /\ res = NoArgs
    /\ scoreArgs = NoArgs
    /\ scoreRes = NoArgs
    /\ viz = NoArgs

Next == BuildKG \/ FindAlternatives \/ Rerun

Spec == Init /\ [][Next]_vars

----------------------------------------------------------------------------
(* AppService.build_visualization -> visualize_search_path.                *)

BuildVisualization_Mut ==
    /\ pc = "answered"
    /\ \E out \in visualize_search_path(KG, res.requested, res.alternatives) :
          /\ viz' = [call |-> "visualize_search_path", root |-> res.requested,
                     recs |-> res.alternatives, result |-> out]
          /\ KG' = IF IsNone(out.figure) THEN KG
                   ELSE [KG EXCEPT !.etype = [e \in Val(out.figure).edges |-> KG.etype[e]]]
    /\ pc' = "drawn"
    /\ UNCHANGED <<products, bfsArgs, bfs, query, res, scoreArgs, scoreRes>>

(* The paths behind the answer of the query just made. *)
BuildVisualization ==
    /\ pc = "answered"
    /\ \E out \in visualize_search_path(KG, res.requested, res.alternatives) :
          viz' = [call |-> "visualize_search_path", root |-> res.requested,
                  recs |-> res.alternatives, result |-> out]
    /\ pc' = "drawn"
    /\ UNCHANGED <<products, KG, bfsArgs, bfs, query, res, scoreArgs, scoreRes>>

(* The recommendation lists of at most MaxAlternatives distinct catalog    *)
(* products (only the product of a recommendation is read).                *)
RecLists ==
    UNION { { [i \in 1..n |-> [product |-> products[ix[i]], score |-> 0,
                               rule_tags |-> <<>>, explanation |-> <<>>]]
              : ix \in {f \in [1..n -> DOMAIN products] :
                           \A i, j \in 1..n : i # j => f[i] # f[j]} }
            : n \in 0..MaxAlternatives }

(* visualize_search_path on any requested product and recommendations of   *)
(* the catalog.                                                            *)
VisualizeCall ==
    /\ pc = "ready"
    /\ \E i \in DOMAIN products, recs \in RecLists :
          \E out \in visualize_search_path(KG, Some(products[i]), recs) :
              viz' = [call |-> "visualize_search_path", root |-> Some(products[i]),
                      recs |-> recs, result |-> out]
    /\ pc' = "drawn"
    /\ UNCHANGED <<products, KG, bfsArgs, bfs, query, res, scoreArgs, scoreRes>>

InitViz ==
    /\ products \in Catalogs(VizVariants)
    /\ KG = EmptyGraph
    /\ pc = "loaded"
    /\ bfsArgs = NoArgs
    /\ bfs = NoBfs
    /\ query = NoArgs
    /\ res = NoArgs
    /\ scoreArgs = NoArgs
    /\ scoreRes = NoArgs
    /\ viz = NoArgs

NextViz == BuildKG \/ FindAlternatives \/ BuildVisualization \/ VisualizeCall \/ Rerun

SpecViz == InitViz /\ [][NextViz]_vars

(* The call runs to its end: find_alternatives is synchronous and nothing  *)
(* suspends the loop, so an iteration that can be made is made and the     *)
(* return that can be made is made.  Over the catalogs of VizVariants.     *)
SpecBfsFair == InitViz /\ [][NextBfs]_vars /\ WF_vars(BfsStep) /\ WF_vars(BfsReturn)

----------------------------------------------------------------------------
(* build_explanation on its own, over every list of at most MaxTags rule   *)
(* tags (those of the table and one that is not in it).                    *)

TagPool == DOMAIN RULE_EXPLANATIONS \cup {"unknown_tag"}

TagLists == UNION {[1..n -> TagPool] : n \in 0..MaxTags}

ExplainCall ==
    /\ pc = "explain"
    /\ res' = [call |-> "build_explanation",
               result |-> build_explanation(query.rule_tags, query.required_tags)]
    /\ pc' = "explained"
    /\ UNCHANGED <<products, KG, bfsArgs, bfs, query, scoreArgs, scoreRes, viz>>

InitExplain ==
    /\ query \in { [call |-> "build_explanation", rule_tags |-> rt, required_tags |-> rq]
                    : rt \in TagLists, rq \in {<<>>, <<"t1">>, <<"t1", "t2">>, <<"t2", "t1">>} }
    /\ products = <<>>
    /\ KG = EmptyGraph
    /\ pc = "explain"
    /\ bfsArgs = NoArgs
    /\ bfs = NoBfs
    /\ res = NoArgs
    /\ scoreArgs = NoArgs
    /\ scoreRes = NoArgs
    /\ viz = NoArgs

NextExplain == ExplainCall

SpecExplain == InitExplain /\ [][NextExplain]_vars

----------------------------------------------------------------------------
(* score_candidate on its own, over every combination of its inputs.      *)

ScoreProduct(id, name, category, brand, price, in_stock, tags) ==
    [product_id |-> id, name |-> name, category |-> category, brand |-> brand,
     price |-> price, in_stock |-> in_stock, tags |-> tags]

ScoreCall ==
    /\ pc = "args"
    /\ scoreRes' = [call |-> "score_candidate",
                    result |-> score_candidate(scoreArgs.requested, scoreArgs.candidate,
                                               scoreArgs.depth, scoreArgs.max_price,
                                               scoreArgs.required_tags,
                                               scoreArgs.preferred_brand)]
    /\ pc' = "scored"
    /\ UNCHANGED <<products, KG, bfsArgs, bfs, query, res, scoreArgs, viz>>

InitScore ==
    /\ scoreArgs \in
         { [call |-> "score_candidate",
            requested |-> ScoreProduct(<<"P001">>, "Milk", rc, "b1", rp, TRUE, <<>>),
            candidate |-> ScoreProduct(<<"P003">>, "Curd", cc, cb, cp, cs, ct),
            depth |-> d, max_price |-> mp, required_tags |-> rt, preferred_brand |-> pb]
           : rc \in {"Dairy", "Snacks", "Beverages"}, cc \in {"Dairy", "Snacks", "Beverages"},
             rp \in 1..MaxPrice, cp \in 1..MaxPrice, cb \in {"b1", "b2"}, cs \in BOOLEAN,
             ct \in {<<>>, <<"t1">>, <<"t1", "t2">>}, d \in 1..(MaxDepth + 1),
             mp \in {None} \cup {Some(m) : m \in 1..MaxPrice},
             rt \in {<<>>, <<"t1">>, <<"t2">>},
             pb \in {None, Some("b1"), Some("b2")} }
    /\ products = <<>>
    /\ KG = EmptyGraph
    /\ pc = "args"
    /\ bfsArgs = NoArgs
    /\ bfs = NoBfs
    /\ query = NoArgs
    /\ res = NoArgs
    /\ scoreRes = NoArgs
    /\ viz = NoArgs

NextScore == ScoreCall

SpecScore == InitScore /\ [][NextScore]_vars

----------------------------------------------------------------------------
(* Graph distance, stated on the edge set alone (not on the traversal).   *)

RECURSIVE Ball(_, _, _)
Ball(G, s, k) ==
    IF k = 0 THEN {s}
    ELSE LET B == Ball(G, s, k - 1)
         IN  B \cup {n \in NodeSet(G) : \E m \in B : {m, n} \in EdgeSet(G)}

(* Number of edges of a shortest path from s to t, -1 when there is none. *)
Distance(G, s, t) ==
    LET N == Cardinality(NodeSet(G))
    IN  IF t \in Ball(G, s, N)
        THEN CHOOSE k \in 0..N : t \in Ball(G, s, k) /\ \A j \in 0..(k - 1) : t \notin Ball(G, s, j)
        ELSE -1

----------------------------------------------------------------------------
(* Claims about bfs_candidates_with_depth (SpecBfs) *)

(* C1: every candidate of bfs_candidates_with_depth has a recorded depth   *)
(* between 1 and max_depth; with max_depth = 0 there is no candidate.      *)
C1_CandidateDepthWithinBound ==
    pc \in {"bfs", "returned"} =>
        /\ \A i \in DOMAIN bfs.candidates :
              1 <= bfs.candidates[i].depth /\ bfs.candidates[i].depth <= bfsArgs.max_depth
        /\ bfsArgs.max_depth = 0 => bfs.candidates = <<>>

C1_Witness ==
    /\ pc = "returned"
    /\ bfsArgs.max_depth >= 2
    /\ \E i \in DOMAIN bfs.candidates : bfs.candidates[i].depth = bfsArgs.max_depth
    /\ \E i \in DOMAIN bfs.candidates : bfs.candidates[i].depth = 1

(* C2: on the graph of build_kg the candidates are exactly the catalog     *)
(* products other than the requested one at shortest-path distance 1 to    *)
(* max_depth from it, each recorded under its id with that distance; the   *)
(* requested product and the hub nodes are never candidates.               *)
C2_CandidatesAreProductsWithinDepth ==
    pc = "returned" =>
        LET start    == product_to_node_id(bfsArgs.requested.product_id)
            expected == {p \in Range(products) :
                            /\ p # bfsArgs.requested
                            /\ Distance(KG, start, product_to_node_id(p.product_id))
                                  \in 1..bfsArgs.max_depth}
        IN  /\ {bfs.candidates[i].product : i \in DOMAIN bfs.candidates} = expected
            /\ \A i \in DOMAIN bfs.candidates :
                  /\ bfs.candidates[i].key = bfs.candidates[i].product.product_id
                  /\ bfs.candidates[i].depth =
                        Distance(KG, start, product_to_node_id(bfs.candidates[i].key))
                  /\ bfs.candidates[i].product # bfsArgs.requested

----------------------------------------------------------------------------
(* Claims about score_candidate (SpecScore) *)

Scored == pc = "scored"

Rejected == IsNone(scoreRes.result[1])

(* C3: score_candidate rejects (no score, no tags) exactly when the        *)
(* candidate is out of stock, or max_price is set and the price is above   *)
(* it, or a required tag is missing; out of stock always rejects and a     *)
(* price equal to max_price does not.                                      *)
C3_RejectIffHardFilterFails ==
    Scored =>
        LET c == scoreArgs.candidate
            priceFails == ~IsNone(scoreArgs.max_price) /\ c.price > Val(scoreArgs.max_price)
            tagsFail   == \E i \in DOMAIN scoreArgs.required_tags :
                             ~Contains(c.tags, scoreArgs.required_tags[i])
        IN  /\ Rejected <=> (~c.in_stock \/ priceFails \/ tagsFail)
            /\ Rejected => scoreRes.result[2] = <<>>
            /\ ~c.in_stock => Rejected
            /\ (c.in_stock /\ ~tagsFail /\ scoreArgs.max_price = Some(c.price)) => ~Rejected

C3_Witness ==
    /\ Scored
    /\ ~Rejected
    /\ scoreArgs.max_price = Some(scoreArgs.candidate.price)
    /\ scoreArgs.required_tags # <<>>

(* The four terms of the score as the specification words them, in tenths. *)
CategoryTerm(r, c) ==
    IF c.category = r.category THEN 40
    ELSE IF \E i \in DOMAIN SIMILAR_CATEGORIES[r.category] :
               SIMILAR_CATEGORIES[r.category][i] = c.category THEN 28
    ELSE 0

BrandTerm(r, c, preferred_brand) ==
    IF preferred_brand # None
    THEN (IF c.brand = Val(preferred_brand) THEN 30 ELSE -5)
    ELSE (IF c.brand = r.brand THEN 20 ELSE 0)

PriceTerm(r, c) ==
    IF c.price < r.price THEN 10 ELSE IF c.price = r.price THEN 5 ELSE -2

ProximityTerm(depth) ==
    IF depth = 1 THEN 10 ELSE IF depth = 2 THEN 5 ELSE 0

(* C4: the score of a candidate that is not rejected is the sum of the     *)
(* category, brand, price and proximity terms; same category, same brand,  *)
(* cheaper, depth 1 and no filters give 8.0.                               *)
C4_ScoreIsSumOfTerms ==
    (Scored /\ ~Rejected) =>
        LET r == scoreArgs.requested
            c == scoreArgs.candidate
        IN  /\ Val(scoreRes.result[1]) =
                  CategoryTerm(r, c) + BrandTerm(r, c, scoreArgs.preferred_brand)
                  + PriceTerm(r, c) + ProximityTerm(scoreArgs.depth)
            /\ ( /\ c.category = r.category /\ c.brand = r.brand /\ c.price < r.price
                 /\ scoreArgs.depth = 1 /\ scoreArgs.preferred_brand = None )
               => Val(scoreRes.result[1]) = 80

C4_Witness ==
    /\ Scored
    /\ ~Rejected
    /\ scoreArgs.requested.category = "Snacks"
    /\ scoreArgs.candidate.category = "Dairy"
    /\ scoreArgs.preferred_brand = Some("b1")
    /\ scoreArgs.candidate.brand = "b2"
    /\ scoreArgs.candidate.price > scoreArgs.requested.price
    /\ scoreArgs.depth = 2
    /\ Val(scoreRes.result[1]) = -2

ScoreAtDepth(d) ==
    score_candidate(scoreArgs.requested, scoreArgs.candidate, d, scoreArgs.max_price,
                    scoreArgs.required_tags, scoreArgs.preferred_brand)[1]

----------------------------------------------------------------------------
(* Claims about find_alternatives and build_kg (Spec) *)

Answered == pc = "answered"

Found == Answered /\ \E i \in DOMAIN products : products[i].name = query.name

RequestedProduct == products[CHOOSE i \in DOMAIN products : products[i].name = query.name]

(* The candidates of the query that pass the scorer, in the order in which *)
(* the traversal first reached them.                                       *)
Survivors ==
    ScoreAll(bfs_candidates_with_depth(KG, RequestedProduct, id_to_product(products), 2)[1],
             RequestedProduct, query.max_price, query.required_tags, query.preferred_brand)

(* C6: for a requested name of the catalog, exact_match is populated, with *)
(* the requested product, exactly when that product is in stock, within    *)
(* max_price when set, has every required tag and is of the preferred      *)
(* brand when set, whatever the traversal finds.                           *)
C6_ExactMatchIffRequestedPasses ==
    Found =>
        LET r == RequestedProduct
            passes == /\ r.in_stock
                      /\ (query.max_price # None => r.price <= Val(query.max_price))
                      /\ \A i \in DOMAIN query.required_tags : Contains(r.tags, query.required_tags[i])
                      /\ (query.preferred_brand # None => r.brand = Val(query.preferred_brand))
        IN  /\ res.exact_match # None <=> passes
            /\ res.exact_match # None => Val(res.exact_match).product = r
            /\ res.requested = Some(r)

C6_Witness ==
    /\ Found
    /\ res.exact_match # None
    /\ res.alternatives = <<>>
    /\ query.max_price # None
    /\ query.required_tags # <<>>
    /\ query.preferred_brand # None
    /\ Len(products) > 1

(* C7: a requested name that matches no product gives a normal result with *)
(* no requested product, no exact match, no alternatives, zero traversed   *)
(* nodes and the not-found message.                                        *)
C7_UnknownNameGivesNotFound ==
    (Answered /\ ~Found) =>
        /\ res.requested = None
        /\ res.exact_match = None
        /\ res.alternatives = <<>>
        /\ res.traversed_nodes = 0
        /\ res.message = "Product not found."

C7_Witness ==
    /\ Answered
    /\ ~Found
    /\ query.name = "Ghee"
    /\ Len(products) = MaxProducts
    /\ res.message = "Product not found."

(* Position of an alternative among the survivors sv. *)
SurvivorIndex(sv, r) == CHOOSE i \in DOMAIN sv : sv[i].product = r.product

(* C8: the alternatives are the first min(max_alternatives, n) of the n    *)
(* surviving candidates ordered by score descending, equal scores in the   *)
(* order of the traversal: scores never increase along the list, it is no  *)
(* longer than max_alternatives, and a survivor left out neither scores    *)
(* higher than a listed one nor ties with it from an earlier position.     *)
C8_AlternativesAreTopByScoreStable ==
    Found =>
        LET alt == res.alternatives
            sv  == Survivors
        IN  /\ Len(alt) = Min2(query.max_alternatives, Len(sv))
            /\ Len(alt) <= query.max_alternatives
            /\ \A i \in DOMAIN alt : \E j \in DOMAIN sv : sv[j] = alt[i]
            /\ \A i, j \in DOMAIN alt : i < j =>
                  /\ alt[i].product # alt[j].product
                  /\ alt[i].score >= alt[j].score
                  /\ alt[i].score = alt[j].score => SurvivorIndex(sv, alt[i]) < SurvivorIndex(sv, alt[j])
            /\ \A j \in DOMAIN sv : (\A i \in DOMAIN alt : alt[i] # sv[j]) =>
                  \A i \in DOMAIN alt :
                      /\ sv[j].score <= alt[i].score
                      /\ sv[j].score = alt[i].score => SurvivorIndex(sv, alt[i]) < j

C8_Witness ==
    /\ Found
    /\ Len(Survivors) = 2
    /\ Survivors[1].score = Survivors[2].score
    /\ query.max_alternatives = 1
    /\ res.alternatives = <<Survivors[1]>>

(* C9: for a requested name of the catalog the message follows from        *)
(* whether exact_match is populated and whether the alternatives list is   *)
(* non-empty; an out-of-stock request with one passing candidate (and     *)
(* room for it in the list) gives "Alternatives found." and one entry, and *)
(* an out-of-stock request whose candidates all exceed max_price gives the *)
(* no-alternatives message.                                                *)
C9_MessageFromExactAndAlternatives ==
    Found =>
        LET exact == res.exact_match # None
            some  == res.alternatives # <<>>
            sv    == Survivors
            cands == bfs_candidates_with_depth(KG, RequestedProduct, id_to_product(products), 2)[1]
        IN  /\ (exact /\ some) =>
                  res.message = "Exact product is available. Showing additional alternatives."
            /\ (exact /\ ~some) =>
                  res.message = "Exact product is available, but no better alternatives were found."
            /\ (~exact /\ some) => res.message = "Alternatives found."
            /\ (~exact /\ ~some) => res.message = "No alternatives found matching constraints."
            /\ (~RequestedProduct.in_stock /\ Len(sv) = 1 /\ query.max_alternatives >= 1) =>
                  res.message = "Alternatives found." /\ Len(res.alternatives) = 1
            /\ ( /\ ~RequestedProduct.in_stock
                 /\ query.max_price # None
                 /\ \A i \in DOMAIN cands : cands[i].product.price > Val(query.max_price) )
               => /\ res.message = "No alternatives found matching constraints."
                  /\ res.alternatives = <<>>

C9_Witness ==
    /\ Found
    /\ ~RequestedProduct.in_stock
    /\ Len(Survivors) = 1
    /\ query.max_price = None /\ query.required_tags = <<>> /\ query.preferred_brand = None
    /\ Survivors[1].product.category = RequestedProduct.category
    /\ Survivors[1].product.price < RequestedProduct.price
    /\ Len(res.alternatives) = 1
    /\ res.message = "Alternatives found."

(* C10: in the graph of build_kg every product has an IS_A edge to the     *)
(* node of its category, and no other IS_A edge touches its node.          *)
C10_OneIsAEdgePerProduct ==
    pc # "loaded" =>
        \A i \in DOMAIN products :
            LET pn == product_to_node_id(products[i].product_id)
                cn == CategoryNode(products[i].category)
            IN  /\ {pn, cn} \in EdgeSet(KG)
                /\ KG.etype[{pn, cn}] = "IS_A"
                /\ \A e \in EdgeSet(KG) : (pn \in e /\ KG.etype[e] = "IS_A") => e = {pn, cn}

C10_Witness ==
    /\ pc = "ready"
    /\ Len(products) = MaxProducts
    /\ \E i, j \in DOMAIN products : products[i].category # products[j].category
    /\ \E e \in EdgeSet(KG) : KG.etype[e] = "SIMILAR_TO"
    /\ Cardinality({e \in EdgeSet(KG) : KG.etype[e] = "IS_A"}) = MaxProducts

----------------------------------------------------------------------------
(* Claims about build_kg (SpecKG) *)

Built == pc = "ready"

Brands == {products[i].brand : i \in DOMAIN products}

Tags == UNION {Range(products[i].tags) : i \in DOMAIN products}

ProductIds == {products[i].product_id : i \in DOMAIN products}

CategoryNodes == {CategoryNode(c) : c \in Range(CATEGORIES)}

BrandNodes == {BrandNode(b) : b \in Brands}

AttrNodes == {AttrNode(t) : t \in Tags}

ProductNodes == {product_to_node_id(id) : id \in ProductIds}

CategoriesInEnumeration == \A i \in DOMAIN products : products[i].category \in Range(CATEGORIES)

(* The node set is the four kinds of node and nothing else, every node once *)
(* and with the node_type of its kind.                                      *)
NodeSetIsExact ==
    /\ NodeSet(KG) = CategoryNodes \cup BrandNodes \cup AttrNodes \cup ProductNodes
    /\ Len(KG.nodes) = Len(CATEGORIES) + Cardinality(Brands) + Cardinality(Tags) + Len(products)
    /\ \A n \in NodeSet(KG) :
          KG.ntype[n] = CASE n \in CategoryNodes -> "category"
                          [] n \in BrandNodes    -> "brand"
                          [] n \in AttrNodes     -> "attribute"
                          [] OTHER               -> "product"

(* C11 as stated: for every product list with unique ids the node set of   *)
(* the graph returned by build_kg is exactly one category node per         *)
(* category of the fixed enumeration, one brand node per distinct brand,   *)
(* one attribute node per distinct tag and one product node per product,   *)
(* and no other node.                                                      *)
C11_NodeSetForEveryCatalog == Built => NodeSetIsExact

(* C11 amended: the same, for every product list with unique ids whose     *)
(* categories all belong to the fixed enumeration.                         *)
C11_NodeSetForEnumeratedCategories == (Built /\ CategoriesInEnumeration) => NodeSetIsExact

C11_Witness ==
    /\ Built
    /\ CategoriesInEnumeration
    /\ Len(products) = 3
    /\ Cardinality(Brands) = 2
    /\ Cardinality(Tags) = 2
    /\ \E i, j \in DOMAIN products : i # j /\ products[i].brand = products[j].brand

SimilarEdge(pair) == {product_to_node_id(pair[1]), product_to_node_id(pair[2])}

(* C12: build_kg adds the SIMILAR_TO edge of a pair of SIMILAR_PAIRS if and *)
(* only if both product ids of the pair are in the product list; a pair     *)
(* with a missing endpoint creates no node and no edge, so every SIMILAR_TO *)
(* edge joins two product nodes of catalog products.                        *)
C12_SimilarEdgeIffBothPresent ==
    Built =>
        /\ \A k \in DOMAIN SIMILAR_PAIRS :
              LET pair == SIMILAR_PAIRS[k]
                  both == pair[1] \in ProductIds /\ pair[2] \in ProductIds
              IN  /\ both <=> SimilarEdge(pair) \in EdgeSet(KG)
                  /\ both => KG.etype[SimilarEdge(pair)] = "SIMILAR_TO"
                  /\ \A x \in {pair[1], pair[2]} :
                        x \notin ProductIds => product_to_node_id(x) \notin NodeSet(KG)
        /\ \A e \in EdgeSet(KG) :
              KG.etype[e] = "SIMILAR_TO" =>
                  /\ e \subseteq ProductNodes
                  /\ \E k \in DOMAIN SIMILAR_PAIRS : e = SimilarEdge(SIMILAR_PAIRS[k])

C12_Witness ==
    /\ Built
    /\ {<<"P001">>, <<"P003">>, <<"P002">>} \subseteq ProductIds
    /\ <<"P026">> \notin ProductIds
    /\ \E e \in EdgeSet(KG) : KG.etype[e] = "SIMILAR_TO"

----------------------------------------------------------------------------
(* Claims about visualize_search_path (SpecViz) *)

Drawn == pc = "drawn"

RootId == product_to_node_id(Val(viz.root).product_id)

TargetId(i) == product_to_node_id(viz.recs[i].product.product_id)

(* The number of edges of a fewest-edges path from the root to every node  *)
(* that has one, from the edge set: known maps the nodes within k edges,    *)
(* frontier is those at exactly k.                                          *)
RECURSIVE DistancesFrom(_, _, _, _)
DistancesFrom(G, known, frontier, k) ==
    LET next == {n \in NodeSet(G) \ DOMAIN known : \E m \in frontier : {m, n} \in EdgeSet(G)}
    IN  IF next = {} THEN known
        ELSE DistancesFrom(G, [n \in next |-> k + 1] @@ known, next, k + 1)

RootDistances == DistancesFrom(KG, [n \in {RootId} |-> 0], {RootId}, 0)

(* The fewest-edges paths from the root to t, given the distances D. *)
RECURSIVE Geodesics(_, _, _)
Geodesics(G, D, t) ==
    IF t \notin DOMAIN D THEN {}
    ELSE IF D[t] = 0 THEN {<<t>>}
    ELSE UNION {{Append(g, t) : g \in Geodesics(G, D, m)}
                : m \in {x \in DOMAIN D : {x, t} \in EdgeSet(G) /\ D[x] = D[t] - 1}}

EdgesOf(path) == {{path[i], path[i + 1]} : i \in 1..(Len(path) - 1)}

(* The targets that have a path from the root, and the unions of one       *)
(* fewest-edges path for each of them.                                     *)
Reachable(D) == {i \in DOMAIN viz.recs : TargetId(i) \in DOMAIN D}

PathUnions(D) ==
    LET R == Reachable(D)
        geo == [i \in R |-> Geodesics(KG, D, TargetId(i))]
    IN  {UNION {EdgesOf(choice[i]) : i \in R}
         : choice \in {c \in [R -> UNION {geo[i] : i \in R}] : \A i \in R : c[i] \in geo[i]}}

(* C14: visualize_search_path collects the edges of one fewest-edges path   *)
(* for each recommended product that has a path from the requested         *)
(* product's node and skips the others without error; it returns None      *)
(* exactly when the list is empty or that union has no edge, and otherwise *)
(* the subgraph whose edge set is the union.                               *)
C14_FigureIsUnionOfShortestPaths ==
    (Drawn /\ ~IsNone(viz.root)) =>
        /\ viz.result.error = ""
        /\ \E U \in PathUnions(RootDistances) :
              /\ IsNone(viz.result.figure) <=> (viz.recs = <<>> \/ U = {})
              /\ ~IsNone(viz.result.figure) =>
                    /\ Val(viz.result.figure).edges = U
                    /\ Val(viz.result.figure).nodes = UNION U

C14_Witness ==
    /\ Drawn
    /\ ~IsNone(viz.root)
    /\ Len(viz.recs) = 2
    /\ Cardinality(Reachable(RootDistances)) = 1
    /\ \E i \in Reachable(RootDistances) :
          Cardinality(Geodesics(KG, RootDistances, TargetId(i))) = 2
    /\ ~IsNone(viz.result.figure)

----------------------------------------------------------------------------
(* Claims about error handling *)

(* The product nodes other than the start that the traversal has reached   *)
(* and whose id has no product record in the catalog.                      *)
DanglingReached ==
    {nb \in bfs.visited :
        /\ StartsWithProduct(nb)
        /\ nb # product_to_node_id(bfsArgs.requested.product_id)
        /\ IsNone(node_id_to_product(nb, id_to_product(products)))}

(* C15: when the BFS reaches a product node whose id has no product record *)
(* in the catalog, the operation fails fast instead of completing: so      *)
(* bfs_candidates_with_depth never returns normally after reaching one.    *)
C15_DanglingNodeNeverReturns == (pc = "returned") => DanglingReached = {}

(* The visualization was made from the answer of find_alternatives. *)
DrawnFromQuery == pc = "drawn" /\ query.call = "find_alternatives"

(* C16: for every catalog with unique ids and names and the graph built    *)
(* from it, find_alternatives followed by visualize_search_path on the     *)
(* returned requested product and alternatives raises nothing: an unknown  *)
(* name, no candidate and no path show as an absent or empty result.       *)
C16_QueryThenVisualizeNeverRaises ==
    DrawnFromQuery =>
        /\ viz.result.error = ""
        /\ IsNone(res.requested) => (res.alternatives = <<>> /\ IsNone(res.exact_match))
        /\ res.alternatives = <<>> => IsNone(viz.result.figure)
        /\ ~IsNone(viz.result.figure) => Val(viz.result.figure).edges \subseteq EdgeSet(KG)

C16_Witness ==
    /\ DrawnFromQuery
    /\ query.name = "Ghee"
    /\ IsNone(res.requested)
    /\ IsNone(viz.result.figure)
    /\ viz.result.error = ""

----------------------------------------------------------------------------
(* Claims about build_explanation (SpecExplain) *)

Explained == pc = "explained"

(* The rule tags that have a sentence in the table, in their order. *)
KnownTags == SelectSeq(query.rule_tags, LAMBDA t : t \in DOMAIN RULE_EXPLANATIONS)

WithRequiredTags ==
    query.required_tags # <<>> /\ Contains(query.rule_tags, "all_required_tags_matched")

(* C17: build_explanation returns the sentences of the table for the tags  *)
(* of ruleTags, in their order, joined by one space, followed (after one   *)
(* more space) by "Required tags: t1, t2." with the required tags in the   *)
(* given order if and only if requiredTags is non-empty and ruleTags holds *)
(* all_required_tags_matched; [same_category, cheaper_option] without      *)
(* required tags gives "Same category. Cheaper than the requested          *)
(* product.".                                                              *)
C17_ExplanationFormat ==
    Explained =>
        LET e == res.result
            n == Len(KnownTags)
            m == Len(query.required_tags)
        IN  /\ \A i \in 1..n : e[2 * i - 1] = RULE_EXPLANATIONS[KnownTags[i]]
            /\ \A i \in 1..(n - 1) : e[2 * i] = " "
            /\ ~WithRequiredTags => Len(e) = Max2(0, 2 * n - 1)
            /\ WithRequiredTags =>
                  /\ Len(e) = 2 * n + 2 * m + 1
                  /\ e[2 * n] = " "
                  /\ e[2 * n + 1] = "Required tags: "
                  /\ \A j \in 1..m : e[2 * n + 2 * j] = query.required_tags[j]
                  /\ \A j \in 1..(m - 1) : e[2 * n + 2 * j + 1] = ", "
                  /\ e[2 * n + 2 * m + 1] = "."
            /\ (query.rule_tags = <<"same_category", "cheaper_option">> /\ query.required_tags = <<>>)
                  => e = <<"Same category.", " ", "Cheaper than the requested product.">>

C17_Witness ==
    /\ Explained
    /\ query.rule_tags = <<"same_category", "unknown_tag", "all_required_tags_matched">>
    /\ query.required_tags = <<"t2", "t1">>
    /\ res.result = <<"Same category.", " ", "Matches all required tags.", " ",
                      "Required tags: ", "t2", ", ", "t1", ".">>

----------------------------------------------------------------------------
(* Claims about the rule tags of score_candidate (SpecScore) *)

CategoryTags == {"same_category", "similar_category"}

BrandTags == {"preferred_brand_respected", "same_brand_as_requested",
              "different_brand_than_requested"}

PriceTags == {"cheaper_option", "same_price_as_requested", "slightly_more_expensive"}

CategoriesUnrelated ==
    /\ scoreArgs.candidate.category # scoreArgs.requested.category
    /\ ~Contains(SIMILAR_CATEGORIES[scoreArgs.requested.category], scoreArgs.candidate.category)

(* C18: for a candidate that is not rejected the rule tags are, in this    *)
(* order: at most one category tag (none when the categories are           *)
(* unrelated), one brand tag, one price tag, closer_in_graph (at any       *)
(* depth), then all_required_tags_matched if and only if requiredTags is   *)
(* non-empty; no tag occurs twice.                                         *)
C18_RuleTagsShape ==
    (Scored /\ ~Rejected) =>
        LET tags == scoreRes.result[2]
            c    == IF CategoriesUnrelated THEN 0 ELSE 1
            r    == IF scoreArgs.required_tags # <<>> THEN 1 ELSE 0
        IN  /\ Len(tags) = c + 3 + r
            /\ c = 1 => tags[1] \in CategoryTags
            /\ tags[c + 1] \in BrandTags
            /\ tags[c + 2] \in PriceTags
            /\ tags[c + 3] = "closer_in_graph"
            /\ r = 1 => tags[c + 4] = "all_required_tags_matched"
            /\ \A i, j \in DOMAIN tags : i # j => tags[i] # tags[j]

C18_Witness ==
    /\ Scored
    /\ ~Rejected
    /\ CategoriesUnrelated
    /\ scoreArgs.depth > 3
    /\ scoreArgs.required_tags # <<>>
    /\ Len(scoreRes.result[2]) = 4

----------------------------------------------------------------------------
(* Claims about termination (SpecBfsFair) *)

(* C19: on every graph, for every start product and every max_depth, the   *)
(* loop of bfs_candidates_with_depth eventually empties its queue and the  *)
(* call returns.                                                           *)
C19_BfsTerminates == (pc = "bfs") ~> (pc = "returned" /\ bfs.queue = <<>>)

(* A call that has returned after more iterations than the start node alone. *)
C19_Witness ==
    /\ pc = "returned"
    /\ bfs.queue = <<>>
    /\ bfs.traversed > 1
    /\ bfsArgs.max_depth = MaxDepth

----------------------------------------------------------------------------
(* Claims about the frame of the queries (SpecViz) *)

(* C20: find_alternatives and visualize_search_path only read the graph    *)
(* and the product list: no step after the graph is built changes the      *)
(* graph's nodes, edges or attributes or a product record, and the answer  *)
(* of a query is the answer the graph it leaves behind gives to the same   *)
(* query, so the graph built once serves every later query.                *)
C20_QueriesLeaveGraphAndCatalog ==
    [][ /\ pc # "loaded" => (KG' = KG /\ products' = products)
        /\ pc' = "answered" =>
              res' = find_alternatives(KG', products', query'.name, query'.max_price,
                                       query'.required_tags, query'.preferred_brand,
                                       query'.max_alternatives) ]_vars

C20_Witness ==
    /\ DrawnFromQuery
    /\ res.alternatives # <<>>
    /\ ~IsNone(viz.result.figure)
    /\ KG = build_kg(products)

----------------------------------------------------------------------------
(* Claims about the traversal count (SpecBfs) *)

InBfs == pc \in {"bfs", "returned"}

StartNode == product_to_node_id(bfsArgs.requested.product_id)

QueuedNodes == {bfs.queue[i][1] : i \in DOMAIN bfs.queue}

(* Every node that was ever put on the queue is in visited, the queue holds *)
(* no node twice, and the nodes taken off it are the rest of visited: so    *)
(* each node is put on the queue once and taken off it at most once.        *)
QueuedOnce ==
    /\ QueuedNodes \subseteq bfs.visited
    /\ \A i, j \in DOMAIN bfs.queue : i # j => bfs.queue[i][1] # bfs.queue[j][1]
    /\ bfs.traversed + Len(bfs.queue) = Cardinality(bfs.visited)
    /\ \A i \in DOMAIN bfs.queue : bfs.queue[i][2] <= bfsArgs.max_depth

(* Taking a node of depth max_depth off the queue counts it and explores   *)
(* none of its neighbours.                                                 *)
LastLevelNotExpanded ==
    (pc = "bfs" /\ pc' = "bfs" /\ bfs.queue # <<>> /\ bfs' # bfs
        /\ Head(bfs.queue)[2] = bfsArgs.max_depth)
    => /\ bfs'.traversed = bfs.traversed + 1
       /\ bfs'.queue = Tail(bfs.queue)
       /\ bfs'.visited = bfs.visited
       /\ bfs'.candidates = bfs.candidates

(* C21: with max_depth >= 0 no node is enqueued or dequeued more than once, *)
(* a node dequeued at depth max_depth is counted but its neighbours are not *)
(* explored, and the returned count equals the number of dequeued nodes,    *)
(* which is the number of distinct nodes (start included) within            *)
(* max_depth edges of the start.                                            *)
C21_TraversedCountsNodesWithinDepth ==
    /\ [](InBfs => QueuedOnce)
    /\ [][LastLevelNotExpanded]_vars
    /\ [](pc = "returned" =>
            /\ bfs.traversed = Cardinality(bfs.visited)
            /\ bfs.visited = Ball(KG, StartNode, bfsArgs.max_depth))

C21_Witness ==
    /\ pc = "returned"
    /\ bfsArgs.max_depth = 2
    /\ bfs.traversed > 3
    /\ bfs.traversed < Cardinality(Ball(KG, StartNode, 3))

----------------------------------------------------------------------------
(* Claims about the alternatives as a whole (Spec) *)

(* C22: every entry of the alternatives returned by find_alternatives is a *)
(* catalog product other than the requested one that is in stock, costs at *)
(* most max_price when it is set, has every required tag and lies within   *)
(* two edges of the requested product in the graph; no product is listed   *)
(* twice and every entry carries a score.                                  *)
C22_AlternativesAreOtherEligibleProducts ==
    Found =>
        LET near == Ball(KG, product_to_node_id(RequestedProduct.product_id), 2)
        IN  /\ \A i \in DOMAIN res.alternatives :
                  LET a == res.alternatives[i].product
                  IN  /\ a \in Range(products)
                      /\ a.product_id # RequestedProduct.product_id
                      /\ a.in_stock
                      /\ IsNone(query.max_price) \/ a.price <= Val(query.max_price)
                      /\ Range(query.required_tags) \subseteq Range(a.tags)
                      /\ product_to_node_id(a.product_id) \in near
                      /\ res.alternatives[i].score \in Int
            /\ \A i, j \in DOMAIN res.alternatives :
                  i # j => res.alternatives[i].product.product_id
                           # res.alternatives[j].product.product_id

====
